---- MODULE Spec2Model ----
(***************************************************************************)
(* The connection-lifecycle engine of metor (src/metor/core.py,            *)
(* class ChatManager, and the command loop run_chat_mode that calls it).   *)
(*                                                                         *)
(* Threads: the listener (accept loop), one handler thread per accepted    *)
(* stream, one receiver thread per started receive loop, and the caller    *)
(* (the main thread).  Every step below is one access to shared state, or  *)
(* one block executed under connection_lock.                               *)
(*                                                                         *)
(* Text is a sequence of one-character strings, so that startswith, strip  *)
(* and the [6:] slice are computed as Python computes them.                *)
(***************************************************************************)
EXTENDS Integers, Sequences, FiniteSets, TLC

\* ------------------------------------------------------------------ bounds
MaxInbound == 2     \* inbound streams the listener accepts in a run
MaxCalls == 2       \* operations the caller invokes in a run
MaxLines == 1       \* lines a peer sends after the handshake, over all streams
MaxEvents == 3      \* accepted streams, caller operations and such lines together

\* -------------------------------------------------------------------- text
Own == <<"A">>                                   \* self.own_onion
PeerB == <<"B">>                                 \* a remote address
Anonymous == <<"a","n","o","n","y","m","o","u","s">>
NoneId == <<"None">>                             \* Python's None as an identity
InitPrefix == <<"/","i","n","i","t"," ">>
RejectPrefix == <<"/","r","e","j","e","c","t"," ">>
DisconnectPrefix == <<"/","d","i","s","c","o","n","n","e","c","t"," ">>
NL == <<"\n">>
Hi == <<"h","i">>

IsSpace(c) == c \in {" ", "\n"}

RECURSIVE LStrip(_)
LStrip(s) == IF s # <<>> /\ IsSpace(Head(s)) THEN LStrip(Tail(s)) ELSE s

RECURSIVE RStrip(_)
RStrip(s) == IF s # <<>> /\ IsSpace(s[Len(s)]) THEN RStrip(SubSeq(s, 1, Len(s) - 1)) ELSE s

\* str.strip()
Strip(s) == RStrip(LStrip(s))

\* str.startswith(p)
StartsWith(s, p) == Len(s) >= Len(p) /\ SubSeq(s, 1, Len(p)) = p

\* s[6:]
From6(s) == SubSeq(s, 7, Len(s))

\* What recv(1024) gives: bytes, or an exception (timeout, error, closed socket).
Data(t) == [kind |-> "data", text |-> t]
Raised == [kind |-> "raised", text |-> <<>>]

\* The first thing the peer of an inbound stream sends: nothing within 5s,
\* end of stream, "/init B\n", "/init \n" (the prefix and no identity), or a
\* line that is no /init.
HandshakeInputs ==
    {Raised, Data(<<>>), Data(InitPrefix \o PeerB \o NL), Data(InitPrefix \o NL),
     Data(Hi \o NL)}

\* What the peer sends later, read by the receive loop: a chat line, a
\* /reject line, or a chat line and a /disconnect line that arrive in one read.
ChatInputs ==
    {Data(Hi \o NL), Data(RejectPrefix \o PeerB \o NL),
     Data(Hi \o NL \o DisconnectPrefix \o PeerB \o NL)}
CloseInputs == {Data(<<>>), Data(DisconnectPrefix \o PeerB \o NL), Raised}

\* ----------------------------------------------------------------- streams
NoConn == 0                                      \* None in a connection field
Inbound == 1 .. MaxInbound                       \* accepted streams, in order
Outbound == {0 - k : k \in 1 .. MaxCalls}        \* dialed streams
Streams == Inbound \cup Outbound
Handlers == Inbound                              \* handler h is spawned for stream h
Receivers == 1 .. (MaxInbound + MaxCalls)

VARIABLES
    active_connection,          \* self.active_connection
    requested_connection,       \* self.requested_connection
    active_remote_identity,     \* self.active_remote_identity
    user_initiated_disconnect,  \* self.user_initiated_disconnect
    receiver_thread,            \* self.receiver_thread (0: None)
    stop_flag,                  \* self.stop_flag
    connection_lock,            \* 0: free; h: held by handler h across steps
    closes,                     \* closes[s]: close() calls made on stream s
    written,                    \* written[s]: lines this endpoint wrote to s
    inflight,                   \* inflight[s]: the peer's first data, unread
    sent,                       \* sent[s]: the peer's first data (kept)
    lpc,                        \* listener: "accept" or "closed"
    naccepted,                  \* streams accepted so far
    hpc, hid,                   \* handler h: position, local identity
    rpc, rconn, rid,            \* receiver r: position, conn, remote_identity
    nreceivers,                 \* receiver threads started so far
    nlines,                     \* lines received after the handshake
    cpc, cop, conion, canon, cconn, crid, cres, ncalls, ndials,  \* caller
    tornBySelf,                 \* streams torn down by disconnect_active(True)
    heard,                      \* heard[s]: reads of s that kept a receive loop going
    endedByPeer,                \* streams whose receive loop a read ended before any local close
    log,                        \* history.log: <<direction, status, identity>>
    ui                          \* cli.print_message: the peer's lines shown

vars == <<active_connection, requested_connection, active_remote_identity,
          user_initiated_disconnect, receiver_thread, stop_flag, connection_lock,
          closes, written, inflight, sent, lpc, naccepted, hpc, hid,
          rpc, rconn, rid, nreceivers, nlines,
          cpc, cop, conion, canon, cconn, crid, cres, ncalls, ndials,
          tornBySelf, heard, endedByPeer, log, ui>>

shared == <<active_connection, requested_connection, active_remote_identity,
            user_initiated_disconnect, receiver_thread, stop_flag, connection_lock>>
streamVars == <<closes, written, inflight, sent>>
listenerVars == <<lpc, naccepted>>
handlerVars == <<hpc, hid>>
receiverVars == <<rpc, rconn, rid, nreceivers, nlines>>
callerVars == <<cpc, cop, conion, canon, cconn, crid, cres, ncalls, ndials>>
sinks == <<log, ui>>
ghosts == <<tornBySelf, heard, endedByPeer>>

\* ChatManager.__init__
Init ==
    /\ active_connection = NoConn
    /\ requested_connection = NoConn
    /\ active_remote_identity = NoneId
    /\ user_initiated_disconnect = FALSE
    /\ receiver_thread = 0
    /\ stop_flag = FALSE
    /\ connection_lock = 0
    /\ closes = [s \in Streams |-> 0]
    /\ written = [s \in Streams |-> <<>>]
    /\ inflight = [s \in Streams |-> Raised]
    /\ sent = [s \in Streams |-> Raised]
    /\ lpc = "accept"
    /\ naccepted = 0
    /\ hpc = [h \in Handlers |-> "idle"]
    /\ hid = [h \in Handlers |-> NoneId]
    /\ rpc = [r \in Receivers |-> "idle"]
    /\ rconn = [r \in Receivers |-> NoConn]
    /\ rid = [r \in Receivers |-> NoneId]
    /\ nreceivers = 0
    /\ nlines = 0
    /\ cpc = "idle"
    /\ cop = "none"
    /\ conion = NoneId
    /\ canon = FALSE
    /\ cconn = NoConn
    /\ crid = NoneId
    /\ cres = "none"
    /\ ncalls = 0
    /\ ndials = 0
    /\ tornBySelf = {}
    /\ heard = [s \in Streams |-> <<>>]
    /\ endedByPeer = {}
    /\ log = <<>>
    /\ ui = <<>>

\* ------------------------------------------------------------ primitives
\* What the environment has done so far: streams accepted, operations the
\* caller started, lines received after a handshake.
Events == naccepted + ncalls + nlines

\* history.log_event(direction, status, onion)
log_event(direction, status, onion) == Append(log, <<direction, status, onion>>)

\* cli.print_message(prefix + msg), for the lines of the peer ("other> ").
\* The "info> " reports are each printed next to the log_event or the return
\* that the model records (log, cres), and are not recorded a second time.
print_message(prefix, msg) == Append(ui, <<prefix, msg>>)

\* A lock that excludes nobody.
LockFreeAlways == TRUE

\* "with self.connection_lock:" can be entered
LockFree == connection_lock = 0

\* "self.active_connection is not None"
SlotBusy == active_connection # NoConn

\* A socket operation on a socket this endpoint has closed raises EBADF.
IsClosed(s) == closes[s] > 0

\* sock.recv(1024) on stream s by a handshake reader
Recv(s) == IF IsClosed(s) THEN Raised ELSE inflight[s]

\* threading.Thread(target=self._receiver_target).start()
StartReceiver ==
    /\ nreceivers' = nreceivers + 1
    /\ receiver_thread' = nreceivers + 1
    /\ rpc' = [rpc EXCEPT ![nreceivers + 1] = "r_init"]
    /\ UNCHANGED <<rconn, rid, nlines>>

\* ---------------------------------------------------------------- listener
\* An accept loop that never looks at the stop flag.
LoopExitsNever == FALSE

\* Line 303: "while not self.stop_flag.is_set()" ends the loop
LoopExits == stop_flag

\* _start_listener_target: accept() returned a stream; it is stored in
\* self.requested_connection and a handler thread is started.
ListenerAccept ==
    /\ lpc = "accept"
    /\ naccepted < MaxInbound
    /\ Events < MaxEvents
    /\ \E d \in HandshakeInputs :
        /\ inflight' = [inflight EXCEPT ![naccepted + 1] = d]
        /\ sent' = [sent EXCEPT ![naccepted + 1] = d]
    /\ naccepted' = naccepted + 1
    /\ requested_connection' = naccepted + 1
    /\ hpc' = [hpc EXCEPT ![naccepted + 1] = "start"]
    /\ lpc' = IF LoopExits THEN "closed" ELSE "accept"
    /\ UNCHANGED <<active_connection, active_remote_identity, user_initiated_disconnect,
                   receiver_thread, stop_flag, connection_lock, closes, written, hid>>
    /\ UNCHANGED <<receiverVars, callerVars, ghosts, sinks>>

\* _start_listener_target: accept() timed out, the loop condition sees
\* stop_flag set, and the listening socket is closed.
ListenerStop ==
    /\ lpc = "accept"
    /\ LoopExits
    /\ lpc' = "closed"
    /\ UNCHANGED <<naccepted, shared, streamVars, handlerVars, receiverVars,
                   callerVars, ghosts, sinks>>

\* ----------------------------------------------------------------- handler
\* What a read leaves unread on stream s: an end of stream stays an end of
\* stream, anything else has been consumed.
AfterRecv(s) ==
    IF IsClosed(s) \/ inflight[s] = Data(<<>>) THEN inflight
    ELSE [inflight EXCEPT ![s] = Raised]

\* Line 325: identity = data.decode().strip() if data else "anonymous"
\* (line 327: "anonymous" when recv raised)
RejectIdentity(d) ==
    IF d.kind = "data" /\ d.text # <<>> THEN Strip(d.text) ELSE Anonymous

\* Lines 342-347: the identity of an /init line, else "anonymous"
HandshakeIdentity(d) ==
    IF d.kind = "data" /\ d.text # <<>> /\ StartsWith(d.text, InitPrefix)
    THEN Strip(From6(Strip(d.text)))
    ELSE Anonymous

\* sendall on stream s: raises on a closed socket, may raise on an open one
SendOutcomes(s) == IF IsClosed(s) THEN {FALSE} ELSE BOOLEAN

\* Lines 319-320: take the lock and test the slot.
HandlerEnter(h) ==
    /\ hpc[h] = "start"
    /\ LockFree
    /\ connection_lock' = h
    /\ hpc' = [hpc EXCEPT ![h] = IF SlotBusy THEN "rej_recv" ELSE "claim"]
    /\ UNCHANGED <<active_connection, requested_connection, active_remote_identity,
                   user_initiated_disconnect, receiver_thread, stop_flag, hid>>
    /\ UNCHANGED <<streamVars, listenerVars, receiverVars, callerVars, ghosts, sinks>>

\* Lines 336-337, and the lock is released.
HandlerClaim(h) ==
    /\ hpc[h] = "claim"
    /\ active_connection' = requested_connection
    /\ user_initiated_disconnect' = FALSE
    /\ connection_lock' = 0
    /\ hpc' = [hpc EXCEPT ![h] = "hs_recv"]
    /\ UNCHANGED <<requested_connection, active_remote_identity, receiver_thread,
                   stop_flag, hid>>
    /\ UNCHANGED <<streamVars, listenerVars, receiverVars, callerVars, ghosts, sinks>>

\* Lines 322-327 (lock held): settimeout(5) and recv on requested_connection.
\* settimeout raises on a closed socket, which skips to the close (line 332).
HandlerRejectRecv(h) ==
    /\ hpc[h] = "rej_recv"
    /\ LET s == requested_connection IN
        /\ hpc' = [hpc EXCEPT ![h] = IF IsClosed(s) THEN "rej_close" ELSE "rej_send"]
        /\ hid' = [hid EXCEPT ![h] = IF IsClosed(s) THEN hid[h] ELSE RejectIdentity(Recv(s))]
        /\ inflight' = AfterRecv(s)
    /\ UNCHANGED <<shared, closes, written, sent, listenerVars, receiverVars,
                   callerVars, ghosts, sinks>>

\* Lines 328-335 (lock held): sendall of the rejection, then the report and
\* the event (a raising sendall skips both); close; the lock is released.
HandlerReject(h) ==
    /\ hpc[h] \in {"rej_send", "rej_close"}
    /\ LET s == requested_connection IN
        /\ \E ok \in SendOutcomes(s) :
            IF ok /\ hpc[h] = "rej_send"
            THEN /\ written' = [written EXCEPT ![s] = Append(@, RejectPrefix \o Own \o NL)]
                 /\ log' = log_event("in", "rejected", hid[h])
            ELSE UNCHANGED <<written, log>>
        /\ closes' = [closes EXCEPT ![s] = @ + 1]
    /\ connection_lock' = 0
    /\ hpc' = [hpc EXCEPT ![h] = "done"]
    /\ hid' = [hid EXCEPT ![h] = NoneId]
    /\ UNCHANGED <<active_connection, requested_connection, active_remote_identity,
                   user_initiated_disconnect, receiver_thread, stop_flag>>
    /\ UNCHANGED <<inflight, sent, listenerVars, receiverVars, callerVars, ghosts, ui>>

\* Lines 339-347 (no lock): the handshake read on requested_connection.
HandlerHandshakeRecv(h) ==
    /\ hpc[h] = "hs_recv"
    /\ LET s == requested_connection IN
        /\ hid' = [hid EXCEPT ![h] = HandshakeIdentity(Recv(s))]
        /\ inflight' = AfterRecv(s)
    /\ hpc' = [hpc EXCEPT ![h] = "hs_finish"]
    /\ UNCHANGED <<shared, closes, written, sent, listenerVars, receiverVars,
                   callerVars, ghosts, sinks>>

\* Line 348: settimeout(None) on requested_connection, outside any try: on a
\* closed socket it raises and the handler thread ends there.
HandlerDies(h) ==
    /\ hpc[h] = "hs_finish"
    /\ IsClosed(requested_connection)
    /\ hpc' = [hpc EXCEPT ![h] = "dead"]
    /\ hid' = [hid EXCEPT ![h] = NoneId]
    /\ UNCHANGED <<shared, streamVars, listenerVars, receiverVars, callerVars,
                   ghosts, sinks>>

\* Lines 348-353: settimeout(None) succeeds; the identity is recorded under
\* the lock, the connection is reported and logged, the receiver is started.
HandlerEstablish(h) ==
    /\ hpc[h] = "hs_finish"
    /\ ~IsClosed(requested_connection)
    /\ LockFree
    /\ active_remote_identity' = hid[h]
    /\ log' = log_event("in", "connected", hid[h])
    /\ StartReceiver
    /\ hpc' = [hpc EXCEPT ![h] = "done"]
    /\ hid' = [hid EXCEPT ![h] = NoneId]
    /\ UNCHANGED <<active_connection, requested_connection, user_initiated_disconnect,
                   stop_flag, connection_lock>>
    /\ UNCHANGED <<streamVars, listenerVars, callerVars, ghosts, ui>>

\* _handle_incoming_target
Handler(h) ==
    \/ HandlerEnter(h)
    \/ HandlerClaim(h)
    \/ HandlerRejectRecv(h)
    \/ HandlerReject(h)
    \/ HandlerHandshakeRecv(h)
    \/ HandlerDies(h)
    \/ HandlerEstablish(h)

\* ---------------------------------------------------------------- receiver
\* Lines 367-369, and the first call of recv (line 372), which raises at once
\* on a socket already closed.
ReceiverInit(r) ==
    /\ rpc[r] = "r_init"
    /\ rconn' = [rconn EXCEPT ![r] = active_connection]
    /\ rpc' = [rpc EXCEPT ![r] =
            IF active_connection = NoConn THEN "done"
            ELSE IF IsClosed(active_connection) THEN "r_clear"
            ELSE "r_recv"]
    /\ UNCHANGED <<rid, nreceivers, nlines>>
    /\ UNCHANGED <<shared, streamVars, listenerVars, handlerVars, callerVars,
                   ghosts, sinks>>

\* What a recv blocked on stream s returns next: the peer's first data if no
\* handshake read consumed it, else whatever the peer does next. A recv that
\* was blocked before a local close still returns what the peer sends.
ReceiverInputs(s) ==
    IF inflight[s].kind = "data" THEN {inflight[s]}
    ELSE CloseInputs \cup (IF nlines < MaxLines /\ Events < MaxEvents THEN ChatInputs ELSE {})

\* Lines 373-377: the loop ends on no data, on "/disconnect ", on an exception
EndsLoop(d) ==
    \/ d.kind = "raised"
    \/ d.text = <<>>
    \/ StartsWith(Strip(d.text), DisconnectPrefix)

\* A receive loop that knows no /reject line.
IsRejectLineNever(d) == FALSE

\* Lines 378-379
IsRejectLine(d) == StartsWith(Strip(d.text), RejectPrefix)

\* Lines 371-383: one return of recv, and the next call of recv, which raises
\* if the socket has been closed locally by then.
ReceiverRecv(r) ==
    /\ rpc[r] = "r_recv"
    /\ LET s == rconn[r] IN
        \E d \in ReceiverInputs(s) :
            /\ inflight' = AfterRecv(s)
            /\ heard' = IF EndsLoop(d) THEN heard
                        ELSE [heard EXCEPT ![s] = Append(@, d.text)]
            /\ endedByPeer' = IF EndsLoop(d) /\ ~IsClosed(s)
                              THEN endedByPeer \cup {s} ELSE endedByPeer
            /\ IF EndsLoop(d)
               THEN /\ rpc' = [rpc EXCEPT ![r] = "r_clear"]
                    /\ UNCHANGED <<ui, nlines>>
               ELSE /\ rpc' = [rpc EXCEPT ![r] = IF IsClosed(s) THEN "r_clear" ELSE "r_recv"]
                    /\ nlines' = nlines + 1
                    /\ ui' = IF IsRejectLine(d) THEN ui
                             ELSE print_message("other> ", Strip(d.text))
    /\ UNCHANGED <<rconn, rid, nreceivers, log>>
    /\ UNCHANGED <<shared, closes, written, sent, listenerVars, handlerVars,
                   callerVars, tornBySelf>>

\* Lines 384-387
ReceiverClear(r) ==
    /\ rpc[r] = "r_clear"
    /\ LockFree
    /\ rid' = [rid EXCEPT ![r] = active_remote_identity]
    /\ active_connection' = NoConn
    /\ active_remote_identity' = NoneId
    /\ rpc' = [rpc EXCEPT ![r] = "r_report"]
    /\ UNCHANGED <<requested_connection, user_initiated_disconnect, receiver_thread,
                   stop_flag, connection_lock, rconn, nreceivers, nlines>>
    /\ UNCHANGED <<streamVars, listenerVars, handlerVars, callerVars, ghosts, sinks>>

\* Lines 388-390
ReceiverReport(r) ==
    /\ rpc[r] = "r_report"
    /\ IF ~user_initiated_disconnect
       THEN log' = log_event("in", "disconnected", rid[r])
       ELSE UNCHANGED log
    /\ rpc' = [rpc EXCEPT ![r] = "done"]
    /\ rconn' = [rconn EXCEPT ![r] = NoConn]
    /\ rid' = [rid EXCEPT ![r] = NoneId]
    /\ UNCHANGED <<nreceivers, nlines, ui>>
    /\ UNCHANGED <<shared, streamVars, listenerVars, handlerVars, callerVars, ghosts>>

\* _receiver_target
Receiver(r) ==
    \/ ReceiverInit(r)
    \/ ReceiverRecv(r)
    \/ ReceiverClear(r)
    \/ ReceiverReport(r)

\* ------------------------------------------------------------------ caller
\* The caller may start one more operation.
CanCall == ncalls < MaxCalls /\ Events < MaxEvents

\* A guard that lets the own address through.
IsSelfNever(onion) == FALSE

\* Line 430: onion == self.own_onion
IsSelf(onion) == onion = Own

\* Line 446: identity_to_send
IdentityToSend(anonymous) == IF anonymous THEN Anonymous ELSE Own

\* The caller is back in the command loop: the locals of the call are gone.
\* cop and conion keep the name and the address argument of the latest call.
Return(result) ==
    /\ cpc' = "idle"
    /\ canon' = FALSE
    /\ cconn' = NoConn
    /\ crid' = NoneId
    /\ cres' = result

\* A test of the slot that never finds a session.
AlreadyConnectedNever == FALSE

\* Line 434: self.active_connection is not None
AlreadyConnected == SlotBusy

\* Lines 429-436: outgoing_connect(onion, anonymous) up to the dial.
OutgoingConnectStart(onion, anonymous) ==
    /\ cpc = "idle"
    /\ CanCall
    /\ ncalls' = ncalls + 1
    /\ cop' = "connect"
    /\ conion' = onion
    /\ IF IsSelf(onion)
       THEN Return("self")
       ELSE /\ LockFree
            /\ IF AlreadyConnected
               THEN Return("already")
               ELSE /\ cpc' = "oc_dial"
                    /\ canon' = anonymous
                    /\ cres' = "none"
                    /\ UNCHANGED <<cconn, crid>>
    /\ UNCHANGED <<ndials, sinks>>
    /\ UNCHANGED <<shared, streamVars, listenerVars, handlerVars, receiverVars, ghosts>>

\* Lines 437-442: connect_via_tor raises.
OutgoingDialFails ==
    /\ cpc = "oc_dial"
    /\ log' = log_event("out", "rejected", conion)
    /\ Return("rejected")
    /\ UNCHANGED <<cop, conion, ncalls, ndials, ui>>
    /\ UNCHANGED <<shared, streamVars, listenerVars, handlerVars, receiverVars, ghosts>>

\* Lines 437-451: connect_via_tor returns a stream, which is installed under
\* the lock (lines 443-445); then the /init line is written, or sendall
\* raises, which is reported and logged.
OutgoingDial ==
    /\ cpc = "oc_dial"
    /\ LockFree
    /\ cconn' = 0 - (ndials + 1)
    /\ ndials' = ndials + 1
    /\ active_connection' = 0 - (ndials + 1)
    /\ user_initiated_disconnect' = FALSE
    /\ \E ok \in BOOLEAN :
        IF ok
        THEN /\ written' = [written EXCEPT ![0 - (ndials + 1)] =
                                Append(@, InitPrefix \o IdentityToSend(canon) \o NL)]
             /\ cpc' = "oc_setid"
             /\ UNCHANGED log
        ELSE /\ log' = log_event("out", "rejected", conion)
             /\ cpc' = "oc_rollback"
             /\ UNCHANGED written
    /\ UNCHANGED <<requested_connection, active_remote_identity, receiver_thread,
                   stop_flag, connection_lock>>
    /\ UNCHANGED <<cop, conion, canon, crid, cres, ncalls, ui>>
    /\ UNCHANGED <<closes, inflight, sent, listenerVars, handlerVars, receiverVars,
                   ghosts>>

\* A rollback that leaves the failed stream in the slot.
RolledBackSlotKept == active_connection

\* Line 453: self.active_connection = None
RolledBackSlot == NoConn

\* Lines 452-454
OutgoingRollback ==
    /\ cpc = "oc_rollback"
    /\ LockFree
    /\ active_connection' = RolledBackSlot
    /\ Return("rejected")
    /\ UNCHANGED <<requested_connection, active_remote_identity, user_initiated_disconnect,
                   receiver_thread, stop_flag, connection_lock>>
    /\ UNCHANGED <<cop, conion, ncalls, ndials>>
    /\ UNCHANGED <<streamVars, listenerVars, handlerVars, receiverVars, ghosts, sinks>>

\* Lines 455-459
OutgoingEstablish ==
    /\ cpc = "oc_setid"
    /\ LockFree
    /\ active_remote_identity' = conion
    /\ log' = log_event("out", "connected", conion)
    /\ StartReceiver
    /\ Return("connected")
    /\ UNCHANGED <<active_connection, requested_connection, user_initiated_disconnect,
                   stop_flag, connection_lock>>
    /\ UNCHANGED <<cop, conion, ncalls, ndials, ui>>
    /\ UNCHANGED <<streamVars, listenerVars, handlerVars, ghosts>>

\* Lines 393-409: the locked block of disconnect_active(initiated_by_self).
\* The /disconnect line is written best-effort; close() and the clearing of
\* the slot follow in any case.
DisconnectLocked(initiated_by_self) ==
    /\ LockFree
    /\ IF SlotBusy
       THEN /\ crid' = active_remote_identity
            /\ user_initiated_disconnect' =
                    IF initiated_by_self THEN TRUE ELSE user_initiated_disconnect
            /\ \E ok \in SendOutcomes(active_connection) :
                written' = IF initiated_by_self /\ ok
                           THEN [written EXCEPT ![active_connection] =
                                    Append(@, DisconnectPrefix \o Own \o NL)]
                           ELSE written
            /\ closes' = [closes EXCEPT ![active_connection] = @ + 1]
            /\ tornBySelf' = IF initiated_by_self
                             THEN tornBySelf \cup {active_connection} ELSE tornBySelf
            /\ active_connection' = NoConn
            /\ active_remote_identity' = NoneId
       ELSE /\ crid' = NoneId
            /\ UNCHANGED <<user_initiated_disconnect, written, closes, tornBySelf,
                           active_connection, active_remote_identity>>
    /\ UNCHANGED <<requested_connection, receiver_thread, stop_flag, connection_lock>>
    /\ UNCHANGED <<inflight, sent, listenerVars, handlerVars, receiverVars, sinks,
                   heard, endedByPeer>>

\* disconnect_active(initiated_by_self=False): lines 393-409 and 415; the
\* returned identity is kept in cres' place by the caller's crid.
DisconnectActive ==
    /\ cpc = "idle"
    /\ CanCall
    /\ ncalls' = ncalls + 1
    /\ DisconnectLocked(FALSE)
    /\ cpc' = "da_return"
    /\ cop' = "disconnect"
    /\ conion' = NoneId
    /\ cres' = "none"
    /\ UNCHANGED <<canon, cconn, ndials>>

\* disconnect_active returns remote_identity (line 415) to a caller that
\* called it directly.
DisconnectReturn ==
    /\ cpc = "da_return"
    /\ Return(IF crid = NoneId THEN "returned_none" ELSE "returned_identity")
    /\ UNCHANGED <<cop, conion, ncalls, ndials>>
    /\ UNCHANGED <<shared, streamVars, listenerVars, handlerVars, receiverVars,
                   ghosts, sinks>>

\* run_chat_mode, "/end" (line 509) and "/exit" (line 522): is_connected()
EndCheck(command) ==
    /\ cpc = "idle"
    /\ CanCall
    /\ ncalls' = ncalls + 1
    /\ LockFree
    /\ cop' = command
    /\ conion' = NoneId
    /\ IF SlotBusy
       THEN /\ cpc' = "end_da"
            /\ cres' = "none"
            /\ UNCHANGED <<canon, cconn, crid, stop_flag>>
       ELSE IF command = "end"
            THEN /\ Return("not_connected")
                 /\ UNCHANGED stop_flag
            ELSE /\ stop_flag' = TRUE
                 /\ cpc' = "exited"
                 /\ cres' = "exited"
                 /\ UNCHANGED <<canon, cconn, crid>>
    /\ UNCHANGED <<active_connection, requested_connection, active_remote_identity,
                   user_initiated_disconnect, receiver_thread, connection_lock>>
    /\ UNCHANGED <<ndials, sinks>>
    /\ UNCHANGED <<streamVars, listenerVars, handlerVars, receiverVars, ghosts>>

\* Lines 510 and 523: disconnect_active(initiated_by_self=True), its locked
\* block (lines 393-409)
EndDisconnect ==
    /\ cpc = "end_da"
    /\ DisconnectLocked(TRUE)
    /\ cpc' = "da_join"
    /\ UNCHANGED <<cop, conion, canon, cconn, cres, ncalls, ndials>>

\* Lines 410-415: join(timeout=1) returns when the receiver thread has ended
\* or after one second, whichever comes first; then the flag is reset.
\* Lines 511-512 (524-527 for "/exit"): the caller reports and logs.
EndFinish ==
    /\ cpc = "da_join"
    /\ receiver_thread' = 0
    /\ user_initiated_disconnect' = FALSE
    /\ log' = log_event("out", "disconnected", crid)
    /\ IF cop = "exit"
       THEN /\ stop_flag' = TRUE
            /\ cpc' = "exited"
            /\ cres' = "exited"
            /\ crid' = NoneId
            /\ UNCHANGED <<canon, cconn>>
       ELSE /\ Return("ended")
            /\ UNCHANGED stop_flag
    /\ UNCHANGED <<active_connection, requested_connection, active_remote_identity,
                   connection_lock>>
    /\ UNCHANGED <<cop, conion, ncalls, ndials, ui>>
    /\ UNCHANGED <<streamVars, listenerVars, handlerVars, receiverVars, ghosts>>

\* A send error that tears the session down.
SlotAfterSendErrorCleared == NoConn

\* Lines 422-423: a raising sendall is reported and nothing else is done; the
\* slot keeps the stream.
SlotAfterSendError == active_connection

\* Lines 417-423: send_message(msg)
SendMessage ==
    /\ cpc = "idle"
    /\ CanCall
    /\ ncalls' = ncalls + 1
    /\ LockFree
    /\ cop' = "send"
    /\ conion' = NoneId
    /\ IF SlotBusy
       THEN \E ok \in SendOutcomes(active_connection) :
                IF ok
                THEN /\ written' = [written EXCEPT ![active_connection] = Append(@, Hi \o NL)]
                     /\ Return("sent")
                     /\ UNCHANGED active_connection
                ELSE /\ Return("send_error")
                     /\ active_connection' = SlotAfterSendError
                     /\ UNCHANGED written
       ELSE /\ Return("not_sent")
            /\ UNCHANGED <<written, active_connection>>
    /\ UNCHANGED <<ndials, sinks>>
    /\ UNCHANGED <<requested_connection, active_remote_identity, user_initiated_disconnect,
                   receiver_thread, stop_flag, connection_lock>>
    /\ UNCHANGED <<closes, inflight, sent, listenerVars, handlerVars,
                   receiverVars, ghosts>>

\* The main thread: the operations of ChatManager and the commands of
\* run_chat_mode that wrap them.
Caller ==
    \/ \E anonymous \in BOOLEAN : OutgoingConnectStart(PeerB, anonymous)
    \/ OutgoingConnectStart(Own, FALSE)
    \/ OutgoingDialFails
    \/ OutgoingDial
    \/ OutgoingRollback
    \/ OutgoingEstablish
    \/ DisconnectActive
    \/ DisconnectReturn
    \/ \E command \in {"end", "exit"} : EndCheck(command)
    \/ EndDisconnect
    \/ EndFinish
    \/ SendMessage

Next ==
    \/ ListenerAccept
    \/ ListenerStop
    \/ \E h \in Handlers : Handler(h)
    \/ \E r \in Receivers : Receiver(r)
    \/ Caller

Spec == Init /\ [][Next]_vars

\* The listener thread is scheduled: accept() is bounded by its one-second
\* timeout (line 305), so the loop condition is evaluated again and again.
FairSpec == Spec /\ WF_vars(ListenerStop)

\* ================================================================= claims
InRejectBranch(h) == hpc[h] \in {"rej_recv", "rej_send", "rej_close"}
InHandshake(h) == hpc[h] \in {"hs_recv", "hs_finish"}
Stepped(f, x) == f'[x] # f[x]

\* ---- C1 ----------------------------------------------------------------
\* C1: no operation installs a stream into the active-session slot while the
\* slot already holds another stream (at most one installed session at any
\* instant; of an outbound dial and an inbound claim, one is refused).
C1_NoInstallOverSession ==
    [][(active_connection' # NoConn /\ active_connection' # active_connection)
        => active_connection = NoConn]_vars

\* ---- C2 ----------------------------------------------------------------
\* C2: once disconnect_active(True) has torn a session down, the receive loop
\* of that session records no (in, disconnected) event for it, however late
\* it observes the closed stream.
C2_NoDuplicateDisconnect ==
    [][\A r \in Receivers :
        (rpc[r] = "r_report" /\ rpc'[r] = "done" /\ rconn[r] \in tornBySelf)
            => log' = log]_vars

\* ---- C3 ----------------------------------------------------------------
\* A receive loop is running for stream s.
ReceiveLoopFor(s) ==
    \E r \in Receivers : rpc[r] \in {"r_recv", "r_clear"} /\ rconn[r] = s

\* A handshake or install path that will start a receive loop is in progress
\* (or a started receiver thread has not yet read the slot).
ReceiveLoopBeingStarted ==
    \/ \E h \in Handlers : InHandshake(h)
    \/ cpc \in {"oc_setid", "oc_rollback"}
    \/ \E r \in Receivers : rpc[r] = "r_init"

\* C3: the slot is non-empty only if a receive loop is running for the stream
\* it holds or is being started for it.
C3_SlotHasReceiveLoop ==
    SlotBusy => (ReceiveLoopFor(active_connection) \/ ReceiveLoopBeingStarted)

\* ---- C4 ----------------------------------------------------------------
\* C4: a handler that rejects an inbound stream while a session is active
\* leaves the session alone (slot, remote identity, flag unchanged, the
\* session's stream neither written to nor closed), and the stream it was
\* started for ends up closed exactly once with at most the one /reject line
\* written to it. (The line and the event are required only when sendall
\* succeeds, which is weaker than the claim.)
C4_RejectLeavesSession ==
    [][\A h \in Handlers :
        (InRejectBranch(h) /\ Stepped(hpc, h) /\ SlotBusy) =>
            /\ active_connection' = active_connection
            /\ active_remote_identity' = active_remote_identity
            /\ user_initiated_disconnect' = user_initiated_disconnect
            /\ closes'[active_connection] = closes[active_connection]
            /\ written'[active_connection] = written[active_connection]
            /\ hpc'[h] = "done" =>
                /\ closes'[h] = 1
                /\ written'[h] \in {<<>>, <<RejectPrefix \o Own \o NL>>}]_vars

\* ---- C5 ----------------------------------------------------------------
\* Stream s is still referenced by the manager or by a running thread (the
\* slot, requested_connection, or a local conn), so it stays open until
\* somebody closes it.
Held(s) ==
    \/ active_connection = s
    \/ requested_connection = s
    \/ cconn = s
    \/ \E r \in Receivers : rconn[r] = s

\* C5: whichever path empties the slot leaves the stream it held closed once
\* that path has finished, and no stream is closed twice. A stream that the
\* finished path has dropped every reference to is counted as closed.
C5_ClosedOnceByClearer ==
    [][/\ \A s \in Streams :
            (active_connection = s /\ active_connection' = NoConn) =>
                \/ closes'[s] >= 1
                \/ ~Held(s)'
                \/ \E r \in Receivers : rconn'[r] = s
       /\ \A r \in Receivers :
            (rconn[r] # NoConn /\ rconn'[r] = NoConn) =>
                \/ closes'[rconn[r]] >= 1
                \/ ~Held(rconn[r])'
       /\ \A s \in Streams : closes'[s] <= 1]_vars

\* ---- C6 ----------------------------------------------------------------
\* C6: when the receive loop of a session that was not torn down by this
\* endpoint reports with no self-initiated disconnect in effect, it records
\* exactly one (in, disconnected, id) event, and id is an identity that was
\* recorded for the session (never the empty value of a cleared slot).
C6_PeerDisconnectReported ==
    [][\A r \in Receivers :
        (rpc[r] = "r_report" /\ rpc'[r] = "done"
            /\ ~user_initiated_disconnect /\ rconn[r] \notin tornBySelf)
        => /\ log' = Append(log, <<"in", "disconnected", rid[r]>>)
           /\ rid[r] # NoneId]_vars

\* ---- C7 ----------------------------------------------------------------
\* C7: the handler of an inbound stream that claimed the slot always
\* establishes a session (it never ends without one), and the identity it
\* records and logs is the one announced by that stream's /init line, or
\* "anonymous" when the stream sent nothing, ended, or sent another line.
C7_HandshakeDegradation ==
    /\ [](\A h \in Handlers : hpc[h] # "dead")
    /\ [][\A h \in Handlers :
            (hpc[h] = "hs_finish" /\ hpc'[h] = "done") =>
                /\ hid[h] = HandshakeIdentity(sent[h])
                /\ active_remote_identity' = hid[h]
                /\ log' = Append(log, <<"in", "connected", hid[h]>>)
                /\ nreceivers' = nreceivers + 1]_vars

\* ---- C8 ----------------------------------------------------------------
\* C8: of the handlers of concurrently accepted inbound streams at most one is
\* inside the locked decision at a time; a handler takes the reject branch
\* exactly when it finds the slot non-empty; and a handler stores a stream in
\* the slot only while the slot is still empty, leaving it non-empty when it
\* releases the lock. So two handlers never both claim an empty slot.
C8_OneInboundClaims ==
    /\ [](Cardinality({h \in Handlers : hpc[h] = "claim" \/ InRejectBranch(h)}) <= 1)
    /\ [][\A h \in Handlers :
            /\ (hpc[h] = "start" /\ Stepped(hpc, h)) =>
                    hpc'[h] = (IF SlotBusy THEN "rej_recv" ELSE "claim")
            /\ (hpc[h] = "claim" /\ Stepped(hpc, h)) =>
                    /\ active_connection = NoConn
                    /\ active_connection' # NoConn
                    /\ connection_lock = h
                    /\ connection_lock' = 0]_vars

\* Two inbound streams in flight: one handler has claimed and is reading the
\* handshake, the other found the slot taken and is rejecting.
C8_Witness ==
    \E h1, h2 \in Handlers :
        /\ h1 # h2
        /\ InHandshake(h1)
        /\ InRejectBranch(h2)
        /\ SlotBusy

\* ---- C9 ----------------------------------------------------------------
\* C9 as stated: a failed outgoing_connect (dial failure, or /init write
\* failure and rollback) returns with the slot empty.
C9_FailureLeavesSlotEmpty ==
    [][(cpc \in {"oc_dial", "oc_rollback"} /\ cpc' = "idle")
        => active_connection' = NoConn]_vars

\* C9 as amended: a failed outgoing_connect reports "rejected", records
\* exactly one (out, rejected, address) event and nothing else, and starts no
\* receive loop; after a dial failure the slot is as it was (no stream of the
\* call is installed), after an /init write failure the rollback leaves the
\* slot empty at return.
C9_OutboundFailure ==
    [][/\ (cpc = "idle" /\ cpc' = "oc_dial") => log' = log
       /\ (cpc = "oc_dial" /\ cpc' = "idle") =>
            /\ cres' = "rejected"
            /\ log' = Append(log, <<"out", "rejected", conion>>)
            /\ active_connection' = active_connection
            /\ UNCHANGED <<rpc, nreceivers, receiver_thread, active_remote_identity>>
       /\ (cpc = "oc_dial" /\ cpc' = "oc_rollback") =>
            /\ log' = Append(log, <<"out", "rejected", conion>>)
            /\ UNCHANGED <<rpc, nreceivers, receiver_thread, active_remote_identity>>
       /\ (cpc = "oc_rollback" /\ cpc' = "idle") =>
            /\ cres' = "rejected"
            /\ log' = log
            /\ active_connection' = NoConn
            /\ UNCHANGED <<rpc, nreceivers, receiver_thread>>]_vars

\* The dial succeeded, the /init write failed, the call has rolled back and
\* returned: one stream was dialed, the one event is logged, the slot is empty.
C9_Witness ==
    /\ cpc = "idle"
    /\ cop = "connect"
    /\ cres = "rejected"
    /\ ndials = 1
    /\ log = <<<<"out", "rejected", PeerB>>>>
    /\ active_connection = NoConn

\* ---- C10 ---------------------------------------------------------------
\* C10: outgoing_connect called with the own address returns at once with the
\* error, in every state: no dial, no stream installed, no event, and the
\* slot, the remote identity, the flags, the streams and every thread are
\* left as they were.
C10_SelfConnectGuard ==
    [][(ncalls' = ncalls + 1 /\ cop' = "connect" /\ conion' = Own) =>
        /\ cpc' = "idle"
        /\ cres' = "self"
        /\ UNCHANGED <<shared, streamVars, listenerVars, handlerVars, receiverVars,
                       ndials, cconn, ghosts, sinks>>]_vars

\* outgoing_connect(own address) has returned its error while a session is
\* active.
C10_Witness ==
    /\ cop = "connect"
    /\ conion = Own
    /\ cres = "self"
    /\ cpc = "idle"
    /\ SlotBusy
    /\ active_remote_identity # NoneId

\* ---- C11 ---------------------------------------------------------------
\* C11: send_message leaves the slot, the remote identity and the flag as
\* they were and records no event and delivers nothing to the sink, whether
\* the write succeeds or fails; it writes at most the one line, to the stream
\* in the slot, a failed write is only reported to the caller, and with no
\* session nothing is written.
C11_SendKeepsSession ==
    [][(ncalls' = ncalls + 1 /\ cop' = "send") =>
        /\ cpc' = "idle"
        /\ UNCHANGED <<active_connection, active_remote_identity,
                       user_initiated_disconnect, receiver_thread, closes, sinks>>
        /\ cres' \in {"sent", "send_error", "not_sent"}
        /\ cres' = "sent" =>
                /\ active_connection # NoConn
                /\ written' = [written EXCEPT ![active_connection] = Append(@, Hi \o NL)]
        /\ cres' = "send_error" => (active_connection # NoConn /\ written' = written)
        /\ cres' = "not_sent" => (active_connection = NoConn /\ written' = written)]_vars

\* send_message has reported a send error and the session is still there,
\* with its identity.
C11_Witness ==
    /\ cop = "send"
    /\ cres = "send_error"
    /\ cpc = "idle"
    /\ active_connection # NoConn
    /\ active_remote_identity = PeerB

\* ---- C12 ---------------------------------------------------------------
\* C12: outgoing_connect called with another address while the slot holds a
\* stream returns at once with "already connected": no dial, nothing written
\* to any stream, no event, and the slot, the remote identity, the flags and
\* every thread (the receive loop included) are left as they were.
C12_ConnectWhileConnected ==
    [][(ncalls' = ncalls + 1 /\ cop' = "connect" /\ conion' # Own
            /\ active_connection # NoConn) =>
        /\ cpc' = "idle"
        /\ cres' = "already"
        /\ UNCHANGED <<shared, streamVars, listenerVars, handlerVars, receiverVars,
                       ndials, cconn, ghosts, sinks>>]_vars

\* outgoing_connect(B) has returned "already connected" while a receive loop
\* is reading the stream of the session.
C12_Witness ==
    /\ cop = "connect"
    /\ conion = PeerB
    /\ cres = "already"
    /\ cpc = "idle"
    /\ active_connection # NoConn
    /\ \E r \in Receivers : rpc[r] = "r_recv" /\ rconn[r] = active_connection

\* ---- C13 ---------------------------------------------------------------
\* The dialing side of the scenario, played by this endpoint: its only
\* operation was outgoing_connect(B), which connected; nothing was accepted;
\* the receive loop it started has ended (the peer's user ended the session).
C13_DialingSideDone ==
    /\ naccepted = 0
    /\ ncalls = 1 /\ cop = "connect" /\ cres = "connected" /\ ~canon
    /\ nlines = 0
    /\ nreceivers = 1 /\ rpc[1] = "done"

\* The accepting side of the scenario, played by this endpoint: its only
\* inbound stream announced "/init B" and became a session, and its only
\* operation was the user's /end, which tore that session down and returned;
\* the peer sent nothing and did not close before that.
C13_AcceptingSideDone ==
    /\ naccepted = 1 /\ sent[1] = Data(InitPrefix \o PeerB \o NL)
    /\ ncalls = 1 /\ cop = "end" /\ cres = "ended" /\ cpc = "idle"
    /\ nlines = 0 /\ endedByPeer = {}
    /\ Len(log) >= 2
    /\ log[1] = <<"in", "connected", PeerB>>
    /\ log[2] = <<"out", "disconnected", PeerB>>

\* C13: in the end-to-end scenario the event log of the dialing side is
\* exactly (out, connected, B), (in, disconnected, B), the event log of the
\* accepting side is exactly (in, connected, B), (out, disconnected, B) with B
\* the address the dialer announced, and each side ends with an empty slot.
C13_EndToEnd ==
    /\ C13_DialingSideDone =>
            /\ log = <<<<"out", "connected", PeerB>>, <<"in", "disconnected", PeerB>>>>
            /\ active_connection = NoConn
    /\ C13_AcceptingSideDone =>
            /\ Len(log) = 2
            /\ active_connection = NoConn

\* ---- C14 ---------------------------------------------------------------
\* C14: the handler started for accepted stream h works on stream h and on no
\* other: the stream it stores in the slot is h, and its reads, its /reject
\* line and its close() touch h only, also when further streams have been
\* accepted before it runs.
C14_HandlerKeepsItsStream ==
    [][\A h \in Handlers :
        Stepped(hpc, h) =>
            /\ active_connection' \in {active_connection, h}
            /\ \A s \in Streams \ {h} :
                    /\ closes'[s] = closes[s]
                    /\ written'[s] = written[s]
                    /\ inflight'[s] = inflight[s]]_vars

\* ---- C15 ---------------------------------------------------------------
\* Receiver threads that are inside the receive loop (lines 371-383).
ReceiveLoops == {r \in Receivers : rpc[r] = "r_recv"}

\* C15: at most one receive loop is running at any instant.
C15_OneReceiveLoop == Cardinality(ReceiveLoops) <= 1

\* ---- C16 ---------------------------------------------------------------
\* The reads for which the claim names the identity: "/init B" gives B; a
\* timeout, an error or an end of stream gives "anonymous".
C16_Covered == {Raised, Data(<<>>), Data(InitPrefix \o PeerB \o NL)}
C16_ClaimedIdentity(d) == IF d = Data(InitPrefix \o PeerB \o NL) THEN PeerB ELSE Anonymous

\* C16: the identity a rejecting handler takes from its read is the one the
\* stream claimed, and the (in, rejected) event it records carries that
\* identity.
C16_RejectedIdentity ==
    [][\A h \in Handlers :
        /\ (hpc[h] = "rej_recv" /\ hpc'[h] = "rej_send"
                /\ Recv(requested_connection) \in C16_Covered) =>
                hid'[h] = C16_ClaimedIdentity(Recv(requested_connection))
        /\ (hpc[h] = "rej_send" /\ hpc'[h] = "done" /\ log' # log) =>
                log' = Append(log, <<"in", "rejected", hid[h]>>)]_vars

\* ---- C17 ---------------------------------------------------------------
\* C17: the identity an inbound handler takes from the handshake read is
\* never empty (a line "/init " without an identity gives "anonymous"), and
\* so neither the recorded remote identity nor the identity of a logged event
\* is ever empty.
C17_IdentityNeverEmpty ==
    /\ \A h \in Handlers : hid[h] # <<>>
    /\ active_remote_identity # <<>>
    /\ \A i \in 1 .. Len(log) : log[i][3] # <<>>

\* ---- C18 ---------------------------------------------------------------
\* The lines of a text, split at the newlines.
RECURSIVE C18_Lines(_)
C18_Lines(t) ==
    IF t = <<>> THEN <<>>
    ELSE IF \E i \in 1 .. Len(t) : t[i] = "\n"
         THEN LET i == CHOOSE k \in 1 .. Len(t) :
                            t[k] = "\n" /\ \A j \in 1 .. (k - 1) : t[j] # "\n"
              IN <<SubSeq(t, 1, i - 1)>> \o C18_Lines(SubSeq(t, i + 1, Len(t)))
         ELSE <<t>>

\* What the per-line rules deliver to the sink for a sequence of lines: a
\* /disconnect line ends the session, a /reject line is skipped, any other
\* line is delivered with its text.
RECURSIVE C18_Delivered(_)
C18_Delivered(ls) ==
    IF ls = <<>> THEN <<>>
    ELSE IF StartsWith(Head(ls), DisconnectPrefix) THEN <<>>
    ELSE IF StartsWith(Head(ls), RejectPrefix) THEN C18_Delivered(Tail(ls))
    ELSE <<<<"other> ", Head(ls)>>>> \o C18_Delivered(Tail(ls))

\* C18: a read after which the receive loop goes on delivers each of its
\* lines that is no /disconnect or /reject command to the sink, once, with
\* that line's text and in order, and appends nothing to the event log,
\* however many lines the read holds.
C18_LinesDelivered ==
    [][\A s \in Streams :
        heard'[s] # heard[s] =>
            /\ ui' = ui \o C18_Delivered(C18_Lines(heard'[s][Len(heard'[s])]))
            /\ log' = log]_vars

\* ---- C19 ---------------------------------------------------------------
\* C19: when a receive loop reads a "/reject B" line, nothing is delivered to
\* the sink, no event is recorded, the slot, the remote identity, the flags
\* and the streams are unchanged, and the loop goes on reading (as long as
\* its stream has not been closed by this endpoint).
C19_RejectLineIgnored ==
    [][\A r \in Receivers :
        (rpc[r] = "r_recv" /\ rconn[r] # NoConn
            /\ heard'[rconn[r]] = Append(heard[rconn[r]], RejectPrefix \o PeerB \o NL)) =>
            /\ UNCHANGED <<ui, log, shared, closes, written>>
            /\ ~IsClosed(rconn[r]) => rpc'[r] = "r_recv"]_vars

\* The receive loop of the established session has read a /reject line and
\* is reading on; the sink is empty.
C19_Witness ==
    \E r \in Receivers :
        /\ rpc[r] = "r_recv"
        /\ rconn[r] = active_connection
        /\ active_remote_identity = PeerB
        /\ heard[rconn[r]] = <<RejectPrefix \o PeerB \o NL>>
        /\ ui = <<>>

\* ---- C20 ---------------------------------------------------------------
\* C20: once stop_flag is set the accept loop ends and the listening socket
\* is closed, whatever the handlers and receive loops are doing; and as long
\* as the loop runs, its next step (stopping when the flag is set, accepting
\* when a peer connects) is possible in every state of the handlers, the
\* lock included.
C20_ListenerStops ==
    /\ [](stop_flag => <>(lpc = "closed"))
    /\ []((lpc = "accept" /\ stop_flag) => ENABLED ListenerStop)
    /\ []((lpc = "accept" /\ naccepted < MaxInbound /\ Events < MaxEvents)
            => ENABLED ListenerAccept)

\* The listener has stopped while a handler still holds the lock in the
\* reject branch or is in the middle of a handshake.
C20_Witness ==
    /\ stop_flag
    /\ lpc = "closed"
    /\ \E h \in Handlers : InHandshake(h) \/ InRejectBranch(h)

\* ---- C21 ---------------------------------------------------------------
\* C21: every recorded event carries an identity (an address or
\* "anonymous"), never the missing value None.
C21_EventsCarryIdentity ==
    \A i \in 1 .. Len(log) : log[i][3] # NoneId

\* ---- C22 ---------------------------------------------------------------
\* Receive loop r is at the end of its loop, its own stream has been torn
\* down by disconnect_active, and the slot holds a stream other than the one
\* the loop was started for.
C22_SlotHoldsNewerStream(r) ==
    /\ rpc[r] \in {"r_clear", "r_report"}
    /\ IsClosed(rconn[r])
    /\ SlotBusy
    /\ active_connection # rconn[r]

\* C22: a receive loop that terminates while the slot holds a different,
\* newer stream leaves the slot and the remote identity untouched and
\* records no event that names the newer session's identity.
C22_LoopClearsOwnSessionOnly ==
    [][\A r \in Receivers :
        (C22_SlotHoldsNewerStream(r) /\ rpc'[r] # rpc[r]) =>
            /\ active_connection' = active_connection
            /\ active_remote_identity' = active_remote_identity
            /\ \/ log' = log
               \/ active_remote_identity = NoneId
               \/ log'[Len(log')][3] # active_remote_identity]_vars

\* ---- C23 ---------------------------------------------------------------
\* Text t contains the text sub.
C23_Contains(t, sub) ==
    \E i \in 1 .. (Len(t) - Len(sub) + 1) : SubSeq(t, i, i + Len(sub) - 1) = sub

\* The streams opened by outgoing_connect(onion, anonymous=True): their
\* handshake line is "/init anonymous".
C23_AnonymousStreams ==
    {s \in Streams : written[s] # <<>> /\ written[s][1] = InitPrefix \o Anonymous \o NL}

\* C23: no line this endpoint writes to a stream it opened anonymously
\* contains the local address, the "/disconnect" line of a self-initiated
\* disconnect included.
C23_AnonymousHidesOwnAddress ==
    \A s \in C23_AnonymousStreams :
        \A i \in 1 .. Len(written[s]) : ~C23_Contains(written[s][i], Own)

\* ---- C24 ---------------------------------------------------------------
\* This step records a (in/out, connected) event.
C24_RecordsConnected ==
    /\ Len(log') = Len(log) + 1
    /\ log'[Len(log')][2] = "connected"

\* C24: a stored remote identity implies a non-empty slot, and a connected
\* event is recorded only while the slot is non-empty: once the slot has been
\* emptied in the handshake window, no connected event follows and the
\* identity stays unset.
C24_IdentityOnlyWhileInstalled ==
    [][/\ active_remote_identity' # NoneId => active_connection' # NoConn
       /\ C24_RecordsConnected => active_connection # NoConn]_vars

====
